---- MODULE Spec2Model ----
(***************************************************************************)
(* Token-lifecycle manager WattsVisionAuth (src/visionpluspython/auth.py). *)
(*                                                                         *)
(* Python values are modelled as follows.  An optional value (str | None,  *)
(* float | None) is a sequence: <<>> is None, <<v>> is the value v.  A     *)
(* JSON object is a record with one field per key the code reads, each     *)
(* field saying whether the key is present and what it holds.  Exception   *)
(* messages are sequences of the pieces the f-strings concatenate.         *)
(*                                                                         *)
(* asyncio is cooperative: code between two awaits runs atomically.  The   *)
(* lock is asyncio.Lock: acquire() returns at once when the lock is free   *)
(* and every queued waiter is cancelled, and otherwise queues a future and *)
(* suspends on it; release() frees the lock and sets the result of the     *)
(* first waiter's future if that future is not done; a waiter resumes with *)
(* the lock, or, cancelled, leaves the queue with CancelledError and       *)
(* wakes the first waiter if the lock is free.  The                        *)
(* suspension points of get_access_token are the lock acquisition, the     *)
(* network exchange and the exit of `async with self.session.post(...)`,   *)
(* where aiohttp may or may not wait for the connection to be released.    *)
(* One action runs from the lock acquisition to the POST (or to the return *)
(* / raise when no POST is made or the session refuses it), one runs from  *)
(* the arrival of the response through the body of the try statement, and  *)
(* one, when the exit of the `async with` suspends, from there to the      *)
(* release of the lock.  The awaits of response.text() and response.json() *)
(* come before any field is written and are part of the exchange.  The     *)
(* clock is read by time.time(); it is modelled as a wall clock that only  *)
(* moves forward, in whole seconds.                                        *)
(***************************************************************************)
EXTENDS Integers, Sequences, FiniteSets, TLC

\* ---------------------------------------------------------------- bounds
NumCallers == 3
MaxInvocations == 3
MaxTicks == 1
StartTime == 1000
MaxClosing == 1

\* ------------------------------------------------------ program constants
TOKEN_BUFFER == 60
DEFAULT_EXPIRES_IN == 3600
HTTP_OK == 200

Callers == 1..NumCallers

\* ------------------------------------------------------- optional values
None == <<>>
Some(v) == <<v>>

\* Variant: `is not None` for truthiness, "" passes.
IsNotNone(o) == o # None

\* Python truthiness of a str | None: None and "" are falsy.
TruthyStr(o) == o # None /\ o[1] # ""

\* Python truthiness of a float | None: None and 0 are falsy.
TruthyNum(o) == o # None /\ o[1] # 0

\* ------------------------------------------------ what the endpoint sends
AccessTokenValues == {"tokA", "tokB"}
RefreshTokenValues == {"rt1"}
ExpiresInValues == {TOKEN_BUFFER, TOKEN_BUFFER + 1}
ErrorStatuses == {401, 500}
ErrorBodies == {"{\"error\":\"invalid_grant\"}", "Service Unavailable"}
TransportErrors == {"Cannot connect to host", "Name or service not known"}

\* str(response.status) for the statuses the endpoint sends
Str(n) == CASE n = 200 -> "200" [] n = 401 -> "401" [] n = 500 -> "500"

\* A field of the JSON object: has = the key is present, val = its value
\* (None is JSON null).  expires_in also records whether the value is a
\* number; float + non-number raises TypeError.
StrFields ==
    {[has |-> FALSE, val |-> None]} \cup
    {[has |-> TRUE, val |-> None], [has |-> TRUE, val |-> Some("")]}
AccessTokenFields ==
    StrFields \cup {[has |-> TRUE, val |-> Some(t)] : t \in AccessTokenValues}
RefreshTokenFields ==
    StrFields \cup {[has |-> TRUE, val |-> Some(t)] : t \in RefreshTokenValues}
ExpiresInFields ==
    {[has |-> FALSE, num |-> FALSE, val |-> 0],
     [has |-> TRUE, num |-> FALSE, val |-> 0]} \cup
    {[has |-> TRUE, num |-> TRUE, val |-> e] : e \in ExpiresInValues}

NoJson ==
    [access_token |-> [has |-> FALSE, val |-> None],
     expires_in |-> [has |-> FALSE, num |-> FALSE, val |-> 0],
     refresh_token |-> [has |-> FALSE, val |-> None]]

\* The JSON objects the endpoint sends: every combination of the three
\* fields around a usable access_token; without one, the object alone (the
\* code raises before it reads the other two fields).
JsonObjects ==
    [access_token : AccessTokenFields \ StrFields,
     expires_in : ExpiresInFields,
     refresh_token : RefreshTokenFields] \cup
    {[NoJson EXCEPT !.access_token = f] : f \in StrFields}

\* The ways the exchange `async with self.session.post(...)` can end:
\*   ClientError   an aiohttp.ClientError (connection refused, DNS failure)
\*   TimeoutError  the ClientTimeout(total=API_TIMEOUT) expiring, which
\*                 aiohttp raises as asyncio.TimeoutError
\*   response      a response with a status, a body text and, for a 200,
\*                 a JSON object
\*   CancelledError the caller's task is cancelled while it awaits
NoOutcome ==
    [kind |-> "none", err |-> "", status |-> 0, body |-> "", json |-> NoJson]
Outcomes ==
    {[kind |-> "ClientError", err |-> e, status |-> 0, body |-> "",
      json |-> NoJson] : e \in TransportErrors} \cup
    {[kind |-> "TimeoutError", err |-> "", status |-> 0, body |-> "",
      json |-> NoJson]} \cup
    {[kind |-> "CancelledError", err |-> "", status |-> 0, body |-> "",
      json |-> NoJson]} \cup
    {[kind |-> "response", err |-> "", status |-> s, body |-> b,
      json |-> NoJson] : s \in ErrorStatuses, b \in ErrorBodies} \cup
    {[kind |-> "response", err |-> "", status |-> HTTP_OK, body |-> "",
      json |-> j] : j \in JsonObjects}

\* A POST on a closed session: ClientSession raises
\* RuntimeError("Session is closed") before anything is sent and without
\* suspending.
SessionClosed ==
    [kind |-> "RuntimeError", err |-> "Session is closed", status |-> 0,
     body |-> "", json |-> NoJson]

VARIABLES
    now,               \* time.time()
    access_token,      \* self._access_token
    token_expires_at,  \* self._token_expires_at
    refresh_token,     \* self.refresh_token
    locked,            \* self._lock is held
    waiters,           \* callers suspended in self._lock.acquire(), FIFO
    fut,               \* the future each of them waits on: "pending", with
                       \* its "result" set, or "cancelled" ("none": not queued)
    cancelling,        \* callers whose task was cancelled and has not yet
                       \* resumed with the CancelledError
    invoked,           \* number of get_access_token() invocations so far
    pc,                \* where each caller's get_access_token() is
    pending,           \* what the try body raised, for the caller suspended
                       \* at the exit of `async with self.session.post(...)`
    behind,            \* the waiting caller found the lock held when it called
    calls,             \* number of POSTs issued so far
    src,               \* which POST wrote access_token and token_expires_at
    ev,                \* what the step just taken did, as its caller saw it
    session,           \* self._session: "none", or the session "open" / "closed"
    close_session,     \* self._close_session
    closing,           \* close() calls suspended in `await self._session.close()`
    posted,            \* the POST in flight: its form data
    rotated,           \* the refresh_token of the last response that had one
    jwt                \* an extract_user_id_from_token call: argument, result

vars == <<now, access_token, token_expires_at, refresh_token, locked, waiters,
          fut, cancelling, invoked, pc, pending, behind, calls, src, ev, session, close_session, closing,
          posted, rotated, jwt>>

sessionState == <<session, close_session, closing>>

tokenState == <<access_token, token_expires_at, refresh_token>>

\* ------------------------------------------------------- _is_token_valid
\* Variant: the buffer is one second too long.
IsTokenValidStrict(at, exp, t) ==
    IF ~TruthyStr(at) \/ ~TruthyNum(exp)
    THEN FALSE
    ELSE t < exp[1] - TOKEN_BUFFER - 1

\* Variant: <= for <, a token exactly 60 s from expiry passes.
IsTokenValidLax(at, exp, t) ==
    IF ~TruthyStr(at) \/ ~TruthyNum(exp)
    THEN FALSE
    ELSE t <= exp[1] - TOKEN_BUFFER

\* Variant: the expiry is not looked at.
IsTokenValidNoExpiry(at, exp, t) == TruthyStr(at)

\* Check if current token is valid (with 60s buffer).
IsTokenValid(at, exp, t) ==
    IF ~TruthyStr(at) \/ ~TruthyNum(exp)
    THEN FALSE
    ELSE t < exp[1] - TOKEN_BUFFER

\* ------------------------------------------------- _refresh_access_token
NoException == [type |-> "none", msg |-> <<>>]

\* token_data.get(key): the value, or None when the key is absent
JsonGet(field) == IF field.has THEN field.val ELSE None

\* Variant: the response text is left out of the message.
StatusMessageNoBody(status, body) ==
    <<"Token request failed with status ", Str(status)>>

\* f"Token request failed with status {response.status}: {error_text}"
StatusMessage(status, body) ==
    <<"Token request failed with status ", Str(status), ": ", body>>

\* Variant: token_data.get("refresh_token") assigned unconditionally.
NewRefreshTokenAlways(rt, json) == JsonGet(json.refresh_token)

\* if "refresh_token" in token_data: self.refresh_token = token_data[...]
NewRefreshToken(rt, json) ==
    IF json.refresh_token.has THEN json.refresh_token.val ELSE rt

\* Variant: the response's expires_in is not read.
NewExpiryDefaultOnly(t, e) == Some(t + DEFAULT_EXPIRES_IN)

\* expires_in = token_data.get("expires_in", 3600)
\* self._token_expires_at = time.time() + expires_in
NewExpiry(t, e) == Some(t + (IF e.has THEN e.val ELSE DEFAULT_EXPIRES_IN))

\* The body of the try statement, run on the outcome o of the exchange at
\* time t with the manager holding (at, exp, rt): the fields as the body
\* leaves them, the exception it raises, and the fields it assigned.
TryBody(at, exp, rt, o, t) ==
    IF o.kind = "ClientError"
    THEN [access_token |-> at, token_expires_at |-> exp, refresh_token |-> rt,
          raised |-> [type |-> "ClientError", msg |-> <<o.err>>],
          wrote |-> {}]
    ELSE IF o.kind = "TimeoutError"
    THEN [access_token |-> at, token_expires_at |-> exp, refresh_token |-> rt,
          raised |-> [type |-> "TimeoutError", msg |-> <<o.err>>],
          wrote |-> {}]
    ELSE IF o.kind \in {"RuntimeError", "CancelledError"}
    THEN [access_token |-> at, token_expires_at |-> exp, refresh_token |-> rt,
          raised |-> [type |-> o.kind, msg |-> <<o.err>>],
          wrote |-> {}]
    ELSE IF o.status # HTTP_OK
    THEN [access_token |-> at, token_expires_at |-> exp, refresh_token |-> rt,
          raised |-> [type |-> "WattsVisionAuthError",
                      msg |-> StatusMessage(o.status, o.body)],
          wrote |-> {}]
    ELSE LET newAt == JsonGet(o.json.access_token) IN
         IF ~TruthyStr(newAt)
         THEN [access_token |-> newAt, token_expires_at |-> exp,
               refresh_token |-> rt,
               raised |-> [type |-> "WattsVisionAuthError",
                           msg |-> <<"No access token in response">>],
               wrote |-> {"access_token"}]
         ELSE LET e == o.json.expires_in IN
              IF e.has /\ ~e.num
              THEN [access_token |-> newAt, token_expires_at |-> exp,
                    refresh_token |-> rt,
                    raised |-> [type |-> "TypeError",
                                msg |-> <<"unsupported operand type(s) for +">>],
                    wrote |-> {"access_token"}]
              ELSE [access_token |-> newAt,
                    token_expires_at |-> NewExpiry(t, e),
                    refresh_token |-> NewRefreshToken(rt, o.json),
                    raised |-> NoException,
                    wrote |-> {"access_token", "token_expires_at"}]

\* The except clauses: aiohttp.ClientError becomes
\* WattsVisionConnectionError, every other Exception (the
\* WattsVisionAuthError raised by the body included) becomes
\* WattsVisionAuthError.  asyncio.CancelledError is a BaseException and
\* passes through both clauses.
Cancelled == [type |-> "CancelledError", msg |-> <<"">>]

ExceptClauses(raised) ==
    IF raised.type = "none"
    THEN NoException
    ELSE IF raised.type = "CancelledError"
    THEN raised
    ELSE IF raised.type = "ClientError"
    THEN [type |-> "WattsVisionConnectionError",
          msg |-> <<"Connection error during authentication: ">> \o raised.msg]
    ELSE [type |-> "WattsVisionAuthError",
          msg |-> <<"Authentication failed: ">> \o raised.msg]

RefreshAccessToken(at, exp, rt, o, t) ==
    LET r == TryBody(at, exp, rt, o, t) IN
    [r EXCEPT !.raised = ExceptClauses(r.raised)]

\* ------------------------------------------------------------ asyncio.Lock
\* Variant: no mutual exclusion.
CanAcquireAlways == TRUE

\* Variant: release() is skipped when the body raises.
LockedAfterExitNoFinally(raised) == raised.type # "none"

\* `async with self._lock` releases the lock however its body ends:
\* whether the lock is still held after the exit.
LockedAfterExit(raised) == FALSE

\* acquire() returns at once when the lock is free and every queued
\* waiter is cancelled.
CanAcquire ==
    ~locked /\ \A i \in DOMAIN waiters : fut[waiters[i]] = "cancelled"

\* self._waiters.remove(fut)
Remove(ws, c) == SelectSeq(ws, LAMBDA w : w # c)

\* _wake_up_first: set the result of the first waiter's future unless that
\* future is done (has its result, or is cancelled).
WakeUpFirst(ws, f) ==
    IF ws # <<>> /\ f[Head(ws)] = "pending"
    THEN [f EXCEPT ![Head(ws)] = "result"]
    ELSE f

\* ------------------------------------------------------------ the request
ClientId == "client-id"
ClientSecret == "client-secret"

NoRequest ==
    [data |-> [grant_type |-> "", client_id |-> "", client_secret |-> "",
               refresh_token |-> None]]

\* Variant: the refresh token given to the constructor is sent.
FormDataInitialToken(rt) ==
    [grant_type |-> "refresh_token", client_id |-> ClientId,
     client_secret |-> ClientSecret, refresh_token |-> Some("rt0")]

\* data = {"grant_type": "refresh_token", "client_id": ..., ...}
FormData(rt) ==
    [grant_type |-> "refresh_token", client_id |-> ClientId,
     client_secret |-> ClientSecret, refresh_token |-> rt]

\* The `session` property: get or create the aiohttp session.
SessionProperty(s) == IF s = "none" THEN "open" ELSE s

\* --------------------------------------------- extract_user_id_from_token
\* A token as jwt.decode(token, options={"verify_signature": False}) takes
\* it apart: its Python type, whether the str can be encoded as UTF-8 (a
\* str holding a lone surrogate cannot), its number of dot-separated
\* segments, what the header and payload segments decode to ("deep" is
\* JSON nested beyond the interpreter's recursion limit), whether the
\* signature segment is base64, and the payload's "sub" member.  A header
\* that is a JSON object is
\*   "kidcrit"   when it has a kid that is not a string, or a crit member
\*               that a PyJWT validating the header rejects (not a
\*               non-empty list of strings, or naming an extension that is
\*               not supported or not in the header), and no "b64": false;
\*   "b64false"  when it has the member "b64": false (the unencoded-payload
\*               option) and neither such a kid nor such a crit;
\*   "object"    otherwise: no kid, crit or b64, or a string kid, or a
\*               crit every PyJWT accepts, as ["b64"] with "b64": true.
\* A header with "b64": false and a kid or crit that is rejected is not
\* among the cases: a PyJWT that does not validate raises DecodeError for
\* it, and which of DecodeError and InvalidTokenError a validating PyJWT
\* raises is not fixed here.
JwtParts == {"badbase64", "badjson", "deep", "notobject", "object"}
HeaderParts == JwtParts \cup {"b64false", "kidcrit"}

\* The installed PyJWT: whether it validates the header's kid and crit
\* members on decoding (recent releases do, 2.6.0 does not).  A header
\* whose kid and crit pass the validation is "object" or "b64false" for
\* both.
PyJwtBuilds == BOOLEAN
SubFields ==
    StrFields \cup {[has |-> TRUE, val |-> Some("user-123")]}
JwtTokens ==
    [type : {"str", "int"}, utf8 : BOOLEAN, segments : 1..3,
     header : HeaderParts,
     payload : JwtParts, signature : {"base64", "badbase64"},
     sub : SubFields]

JwtRaises(type) == [raised |-> type, sub |-> [has |-> FALSE, val |-> None]]

\* jwt.decode without signature verification, by a PyJWT that validates
\* kid and crit or not: the payload, or the exception that leaves
\* jwt.decode, in the order PyJWT works: the type check,
\* token.encode("utf-8"), the split into segments, the header (base64,
\* JSON, object), the base64 of payload and signature, the header's
\* members ("b64": false asks for a detached payload, which is not given;
\* a rejected kid or crit raises InvalidTokenError where PyJWT validates
\* them, and an accepted one changes nothing), the payload (JSON, object).  PyJWT turns the ValueError of a failed
\* decoding into jwt.DecodeError; encode() is called outside those guards
\* and RecursionError is not a ValueError, so the UnicodeEncodeError of
\* the one and the RecursionError of json.loads leave jwt.decode as they
\* are.
JwtDecode(tok, validates) ==
    IF tok.type # "str" THEN JwtRaises("DecodeError")
    ELSE IF ~tok.utf8 THEN JwtRaises("UnicodeEncodeError")
    ELSE IF tok.segments < 3 THEN JwtRaises("DecodeError")
    ELSE IF tok.header \in {"badbase64", "badjson"}
    THEN JwtRaises("DecodeError")
    ELSE IF tok.header = "deep" THEN JwtRaises("RecursionError")
    ELSE IF tok.header = "notobject" THEN JwtRaises("DecodeError")
    ELSE IF tok.payload = "badbase64" \/ tok.signature = "badbase64"
    THEN JwtRaises("DecodeError")
    ELSE IF tok.header = "b64false" THEN JwtRaises("DecodeError")
    ELSE IF tok.header = "kidcrit" /\ validates
    THEN JwtRaises("InvalidTokenError")
    ELSE IF tok.payload = "badjson" THEN JwtRaises("DecodeError")
    ELSE IF tok.payload = "deep" THEN JwtRaises("RecursionError")
    ELSE IF tok.payload = "notobject" THEN JwtRaises("DecodeError")
    ELSE [raised |-> "none", sub |-> tok.sub]

\* except (jwt.DecodeError, jwt.InvalidTokenError, KeyError)
Caught(type) == type \in {"DecodeError", "InvalidTokenError", "KeyError"}

NoValue == [kind |-> "none", value |-> None]

ExtractUserIdFromToken(tok, validates) ==
    LET d == JwtDecode(tok, validates) IN
    IF d.raised = "none"
    THEN [kind |-> "returned", value |-> JsonGet(d.sub)]
    ELSE IF Caught(d.raised)
    THEN [kind |-> "returned", value |-> None]
    ELSE [kind |-> d.raised, value |-> None]

NoExtraction ==
    [token |-> [type |-> "str", utf8 |-> TRUE, segments |-> 1,
                header |-> "badbase64",
                payload |-> "badbase64", signature |-> "badbase64",
                sub |-> [has |-> FALSE, val |-> None]],
     validates |-> FALSE,
     result |-> NoValue]

\* ---------------------------------------------------------------- results
NoResult == [kind |-> "none", token |-> None, msg |-> <<>>]
Returned(tok) == [kind |-> "token", token |-> tok, msg |-> <<>>]
Raised(exc) == [kind |-> exc.type, token |-> None, msg |-> exc.msg]

\* raise WattsVisionAuthError("No refresh token available. Please reauth.")
NoRefreshTokenError ==
    [type |-> "WattsVisionAuthError",
     msg |-> <<"No refresh token available. Please reauth.">>]

\* The step just taken: op is
\*   "wait"     caller c suspended in the lock's queue
\*   "cancel"   the task of caller c, suspended in the queue, was cancelled
\*   "cancelled" caller c resumed in the queue with the CancelledError,
\*              left the queue and raised
\*   "hit"      caller c returned the cached token
\*   "norefresh" caller c raised for want of a refresh token
\*   "post"     caller c issued the POST and is suspended in it
\*   "postclosed" caller c issued the POST on a closed session and raised
\*   "respond"  caller c's POST ended with `outcome` and c returned or raised
\*   "suspend"  caller c's POST ended with `outcome`, the try body ran, and
\*              c is suspended at the exit of the `async with`; result is
\*              what c returns or raises unless it is cancelled there
\*   "exit"     caller c, resumed or cancelled at that exit, returned or
\*              raised
\*   "aenter", "aexit"  __aenter__ and __aexit__ ran
\*   "close"    close() ran, to its end or to its suspension in
\*              session.close()
\*   "closed"   a suspended close() resumed and ended
\*   "tick"     the clock moved
\* queued: c had found the lock held, and waited, before this step.
NoEvent ==
    [op |-> "none", c |-> 0, queued |-> FALSE, result |-> NoResult,
     outcome |-> NoOutcome]
Event(op, c, queued, result, outcome) ==
    [op |-> op, c |-> c, queued |-> queued, result |-> result,
     outcome |-> outcome]

Init ==
    /\ now = StartTime
    /\ access_token = None
    /\ token_expires_at = None
    /\ refresh_token \in {None, Some("rt0")}
    /\ locked = FALSE
    /\ waiters = <<>>
    /\ fut = [c \in Callers |-> "none"]
    /\ cancelling = {}
    /\ invoked = 0
    /\ pc = [c \in Callers |-> "idle"]
    /\ pending = NoException
    /\ behind = [c \in Callers |-> FALSE]
    /\ calls = 0
    /\ src = [tok |-> 0, exp |-> 0]
    /\ ev = NoEvent
    /\ \/ session = "open" /\ close_session = FALSE
       \/ session = "none" /\ close_session = TRUE
    /\ closing = 0
    /\ posted = NoRequest
    /\ rotated = [done |-> FALSE, val |-> None]
    /\ jwt = NoExtraction

\* Variant: the validity of the cache is not looked at again once the lock
\* is held; a caller that had to wait always refreshes.
CriticalSectionNoRecheck(c, ws, f) ==
    IF ~behind[c] /\ IsTokenValid(access_token, token_expires_at, now)
    THEN /\ pc' = [pc EXCEPT ![c] = "idle"]
         /\ ev' = Event("hit", c, behind[c], Returned(access_token), NoOutcome)
         /\ locked' = FALSE
         /\ fut' = WakeUpFirst(ws, f)
         /\ UNCHANGED <<calls, session, posted>>
    ELSE IF ~TruthyStr(refresh_token)
    THEN /\ pc' = [pc EXCEPT ![c] = "idle"]
         /\ ev' = Event("norefresh", c, behind[c], Raised(NoRefreshTokenError),
                        NoOutcome)
         /\ locked' = FALSE
         /\ fut' = WakeUpFirst(ws, f)
         /\ UNCHANGED <<calls, session, posted>>
    ELSE IF SessionProperty(session) = "closed"
    THEN /\ calls' = calls + 1
         /\ pc' = [pc EXCEPT ![c] = "idle"]
         /\ ev' = Event("postclosed", c, behind[c],
                        Raised(RefreshAccessToken(access_token,
                                                  token_expires_at,
                                                  refresh_token,
                                                  SessionClosed, now).raised),
                        SessionClosed)
         /\ locked' = FALSE
         /\ fut' = WakeUpFirst(ws, f)
         /\ UNCHANGED <<session, posted>>
    ELSE /\ pc' = [pc EXCEPT ![c] = "posting"]
         /\ locked' = TRUE
         /\ fut' = f
         /\ calls' = calls + 1
         /\ session' = SessionProperty(session)
         /\ posted' = [data |-> FormData(refresh_token)]
         /\ ev' = Event("post", c, behind[c], NoResult, NoOutcome)

\* get_access_token from the acquisition of the lock, with ws and f the
\* queue and its futures at that moment, to its first suspension point:
\* the POST, or the end of the call, which releases the lock (and wakes
\* the first waiter) in the same step.  On a closed session the POST
\* raises at once: the call ends in this step with the wrapped
\* RuntimeError.
CriticalSection(c, ws, f) ==
    IF IsTokenValid(access_token, token_expires_at, now)
    THEN /\ pc' = [pc EXCEPT ![c] = "idle"]
         /\ ev' = Event("hit", c, behind[c], Returned(access_token), NoOutcome)
         /\ locked' = FALSE
         /\ fut' = WakeUpFirst(ws, f)
         /\ UNCHANGED <<calls, session, posted>>
    ELSE IF ~TruthyStr(refresh_token)
    THEN /\ pc' = [pc EXCEPT ![c] = "idle"]
         /\ ev' = Event("norefresh", c, behind[c], Raised(NoRefreshTokenError),
                        NoOutcome)
         /\ locked' = FALSE
         /\ fut' = WakeUpFirst(ws, f)
         /\ UNCHANGED <<calls, session, posted>>
    ELSE IF SessionProperty(session) = "closed"
    THEN /\ calls' = calls + 1
         /\ pc' = [pc EXCEPT ![c] = "idle"]
         /\ ev' = Event("postclosed", c, behind[c],
                        Raised(RefreshAccessToken(access_token,
                                                  token_expires_at,
                                                  refresh_token,
                                                  SessionClosed, now).raised),
                        SessionClosed)
         /\ locked' = FALSE
         /\ fut' = WakeUpFirst(ws, f)
         /\ UNCHANGED <<session, posted>>
    ELSE /\ pc' = [pc EXCEPT ![c] = "posting"]
         /\ locked' = TRUE
         /\ fut' = f
         /\ calls' = calls + 1
         /\ session' = SessionProperty(session)
         /\ posted' = [data |-> FormData(refresh_token)]
         /\ ev' = Event("post", c, behind[c], NoResult, NoOutcome)

\* A caller invokes get_access_token(): `async with self._lock` either
\* enters at once or suspends the caller at the end of the queue.
Call(c) ==
    /\ pc[c] = "idle"
    /\ invoked < MaxInvocations
    /\ invoked' = invoked + 1
    /\ IF CanAcquire
       THEN /\ CriticalSection(c, waiters, fut)
            /\ UNCHANGED <<waiters, behind>>
       ELSE /\ waiters' = Append(waiters, c)
            /\ fut' = [fut EXCEPT ![c] = "pending"]
            /\ pc' = [pc EXCEPT ![c] = "waiting"]
            /\ behind' = [behind EXCEPT ![c] = locked]
            /\ ev' = Event("wait", c, FALSE, NoResult, NoOutcome)
            /\ UNCHANGED <<locked, calls, session, posted>>
    /\ UNCHANGED <<now, tokenState, cancelling, pending, src, close_session,
                   closing, rotated, jwt>>

\* A waiter whose future has its result resumes: it leaves the queue,
\* takes the lock and enters.
Wake(c) ==
    /\ pc[c] = "waiting"
    /\ fut[c] = "result"
    /\ c \notin cancelling
    /\ waiters' = Remove(waiters, c)
    /\ behind' = [behind EXCEPT ![c] = FALSE]
    /\ CriticalSection(c, Remove(waiters, c), [fut EXCEPT ![c] = "none"])
    /\ UNCHANGED <<now, tokenState, cancelling, invoked, pending, src,
                   close_session, closing, rotated, jwt>>

\* The task of a caller suspended in the queue is cancelled: a pending
\* future is cancelled; a future that has its result keeps it, and the
\* task is left to be resumed with the CancelledError.
Cancel(c) ==
    /\ pc[c] = "waiting"
    /\ c \notin cancelling
    /\ cancelling' = cancelling \cup {c}
    /\ fut' = IF fut[c] = "pending"
              THEN [fut EXCEPT ![c] = "cancelled"]
              ELSE fut
    /\ ev' = Event("cancel", c, behind[c], NoResult, NoOutcome)
    /\ UNCHANGED <<now, tokenState, locked, waiters, invoked, pc, pending,
                   behind, calls, src, sessionState, posted, rotated, jwt>>

\* The cancelled waiter resumes with the CancelledError: it leaves the
\* queue, wakes the first waiter if the lock is free, and raises.
CancelledWake(c) ==
    /\ pc[c] = "waiting"
    /\ c \in cancelling
    /\ cancelling' = cancelling \ {c}
    /\ waiters' = Remove(waiters, c)
    /\ fut' = IF locked
              THEN [fut EXCEPT ![c] = "none"]
              ELSE WakeUpFirst(Remove(waiters, c), [fut EXCEPT ![c] = "none"])
    /\ pc' = [pc EXCEPT ![c] = "idle"]
    /\ behind' = [behind EXCEPT ![c] = FALSE]
    /\ ev' = Event("cancelled", c, behind[c], Raised(Cancelled), NoOutcome)
    /\ UNCHANGED <<now, tokenState, locked, invoked, pending, calls, src,
                   sessionState, posted, rotated, jwt>>

\* Variant: a failed exchange is tried again.
RespondRetry(c, o) ==
    /\ pc[c] = "posting"
    /\ LET r == RefreshAccessToken(access_token, token_expires_at,
                                   refresh_token, o, now) IN
       /\ access_token' = r.access_token
       /\ token_expires_at' = r.token_expires_at
       /\ refresh_token' = r.refresh_token
       /\ rotated' = IF r.raised.type = "none" /\ o.json.refresh_token.has
                     THEN [done |-> TRUE, val |-> o.json.refresh_token.val]
                     ELSE rotated
       /\ src' = [tok |-> IF "access_token" \in r.wrote
                          THEN calls ELSE src.tok,
                  exp |-> IF "token_expires_at" \in r.wrote
                          THEN calls ELSE src.exp]
       /\ IF r.raised.type # "none" /\ calls < MaxInvocations
          THEN /\ calls' = calls + 1
               /\ ev' = Event("post", c, FALSE, NoResult, NoOutcome)
               /\ UNCHANGED <<locked, fut, pc, posted>>
          ELSE /\ ev' = Event("respond", c, FALSE,
                              IF r.raised.type = "none"
                              THEN Returned(r.access_token)
                              ELSE Raised(r.raised),
                              o)
               /\ locked' = FALSE
               /\ fut' = WakeUpFirst(waiters, fut)
               /\ pc' = [pc EXCEPT ![c] = "idle"]
               /\ posted' = NoRequest
               /\ UNCHANGED calls
    /\ UNCHANGED <<now, waiters, cancelling, invoked, pending, behind,
                   sessionState, jwt>>

\* The exchange of caller c ends with outcome o and the try body runs on
\* it.  When a response was received the body ran inside
\* `async with ... as response`, whose exit may suspend (aiohttp waits for
\* the connection to be released) with the fields written and the lock
\* held; otherwise, and when that exit does not suspend,
\* _refresh_access_token runs to its end, get_access_token returns or
\* raises, and the lock is released.
Respond(c, o) ==
    /\ pc[c] = "posting"
    /\ LET b == TryBody(access_token, token_expires_at, refresh_token, o, now)
           r == RefreshAccessToken(access_token, token_expires_at,
                                   refresh_token, o, now)
           result == IF r.raised.type = "none"
                     THEN Returned(r.access_token)
                     ELSE Raised(r.raised)
       IN
       /\ access_token' = r.access_token
       /\ token_expires_at' = r.token_expires_at
       /\ refresh_token' = r.refresh_token
       /\ rotated' = IF r.raised.type = "none" /\ o.json.refresh_token.has
                     THEN [done |-> TRUE, val |-> o.json.refresh_token.val]
                     ELSE rotated
       /\ src' = [tok |-> IF "access_token" \in r.wrote
                          THEN calls ELSE src.tok,
                  exp |-> IF "token_expires_at" \in r.wrote
                          THEN calls ELSE src.exp]
       /\ \/ /\ ev' = Event("respond", c, FALSE, result, o)
             /\ locked' = LockedAfterExit(r.raised)
             /\ fut' = IF LockedAfterExit(r.raised)
                       THEN fut ELSE WakeUpFirst(waiters, fut)
             /\ pc' = [pc EXCEPT ![c] = "idle"]
             /\ UNCHANGED pending
          \/ /\ o.kind = "response"
             /\ ev' = Event("suspend", c, FALSE, result, o)
             /\ pc' = [pc EXCEPT ![c] = "exiting"]
             /\ pending' = b.raised
             /\ UNCHANGED <<locked, fut>>
    /\ posted' = NoRequest
    /\ UNCHANGED <<now, waiters, cancelling, invoked, behind, calls,
                   sessionState, jwt>>

\* Caller c, suspended at the exit of `async with self.session.post(...)`,
\* resumes or is cancelled there: what the body raised, or the
\* CancelledError, goes through the except clauses, get_access_token
\* returns self._access_token or raises, and the lock is released.
Exit(c, cancelled) ==
    /\ pc[c] = "exiting"
    /\ LET raised == ExceptClauses(IF cancelled THEN Cancelled ELSE pending)
       IN
       /\ ev' = Event("exit", c, FALSE,
                      IF raised.type = "none"
                      THEN Returned(access_token)
                      ELSE Raised(raised),
                      NoOutcome)
       /\ locked' = LockedAfterExit(raised)
       /\ fut' = IF LockedAfterExit(raised)
                 THEN fut ELSE WakeUpFirst(waiters, fut)
    /\ pc' = [pc EXCEPT ![c] = "idle"]
    /\ pending' = NoException
    /\ UNCHANGED <<now, tokenState, waiters, cancelling, invoked, behind, calls,
                   src, sessionState, posted, rotated, jwt>>

\* __aenter__: create the session if there is none.
AEnter ==
    /\ session' = SessionProperty(session)
    /\ ev' = Event("aenter", 0, FALSE, NoResult, NoOutcome)
    /\ UNCHANGED <<now, tokenState, locked, waiters, fut, cancelling, invoked,
                   pc, pending, behind,
                   calls, src, close_session, closing, posted, rotated, jwt>>

\* __aexit__, on a normal exit (exc = FALSE) or an exception (exc = TRUE):
\* close the session if the manager owns it.  Nothing follows the await of
\* session.close(), so whether it suspends makes no difference.
AExit(exc) ==
    /\ session' = IF close_session /\ session # "none"
                  THEN "closed" ELSE session
    /\ ev' = Event("aexit", 0, FALSE, NoResult, NoOutcome)
    /\ UNCHANGED <<now, tokenState, locked, waiters, fut, cancelling, invoked,
                   pc, pending, behind,
                   calls, src, close_session, closing, posted, rotated, jwt>>

\* close(): if the manager owns a session, close it and then set
\* self._session to None.  `await self._session.close()` may suspend (the
\* connector waits for its connections to shut down) or not: when it does
\* not, close() ends in this step; when it does, the session is closed and
\* close() is left suspended, whatever other close() calls are suspended
\* already.
Close ==
    /\ IF close_session /\ session # "none"
       THEN \/ session' = "none" /\ UNCHANGED closing
            \/ /\ closing < MaxClosing
               /\ session' = "closed"
               /\ closing' = closing + 1
       ELSE UNCHANGED <<session, closing>>
    /\ ev' = Event("close", 0, FALSE, NoResult, NoOutcome)
    /\ UNCHANGED <<now, tokenState, locked, waiters, fut, cancelling, invoked,
                   pc, pending, behind,
                   calls, src, close_session, posted, rotated, jwt>>

\* A suspended close() resumes: self._session = None, whatever
\* self._session holds by now.
CloseDone ==
    /\ closing > 0
    /\ session' = "none"
    /\ closing' = closing - 1
    /\ ev' = Event("closed", 0, FALSE, NoResult, NoOutcome)
    /\ UNCHANGED <<now, tokenState, locked, waiters, fut, cancelling, invoked,
                   pc, pending, behind,
                   calls, src, close_session, posted, rotated, jwt>>

\* One second passes.
Tick ==
    /\ now < StartTime + MaxTicks
    /\ now' = now + 1
    /\ ev' = Event("tick", 0, FALSE, NoResult, NoOutcome)
    /\ UNCHANGED <<tokenState, locked, waiters, fut, cancelling, invoked, pc,
                   pending, behind, calls,
                   src, sessionState, posted, rotated, jwt>>

Next ==
    \/ \E c \in Callers : Call(c)
    \/ \E c \in Callers : Wake(c)
    \/ \E c \in Callers : Cancel(c)
    \/ \E c \in Callers : CancelledWake(c)
    \/ \E c \in Callers : \E o \in Outcomes : Respond(c, o)
    \/ \E c \in Callers : \E cancelled \in BOOLEAN : Exit(c, cancelled)
    \/ Tick

\* The manager used through get_access_token alone.
Spec == Init /\ [][Next]_vars

\* The event loop runs every task that is ready, and every exchange ends
\* with a response or an error (the request carries a total timeout).
\* Nothing bounds the wait for the release of the connection at the exit
\* of the `async with`: no fairness is stated for Exit.
FairSpec ==
    /\ Spec
    /\ \A c \in Callers : WF_vars(Wake(c))
    /\ \A c \in Callers : WF_vars(CancelledWake(c))
    /\ \A c \in Callers : WF_vars(\E o \in Outcomes : Respond(c, o))

\* The manager used with its scoped acquisition / release and close() as
\* well.
LifecycleNext ==
    \/ Next
    \/ AEnter
    \/ \E exc \in BOOLEAN : AExit(exc)
    \/ Close
    \/ CloseDone

LifecycleSpec == Init /\ [][LifecycleNext]_vars

\* extract_user_id_from_token on every token of JwtTokens.
managerVars ==
    <<now, access_token, token_expires_at, refresh_token, locked, waiters,
      fut, cancelling, invoked, pc, pending, behind, calls, src, ev, session, close_session, closing,
      posted, rotated>>

JwtInit ==
    /\ now = StartTime
    /\ access_token = None
    /\ token_expires_at = None
    /\ refresh_token = None
    /\ locked = FALSE
    /\ waiters = <<>>
    /\ fut = [c \in Callers |-> "none"]
    /\ cancelling = {}
    /\ invoked = 0
    /\ pc = [c \in Callers |-> "idle"]
    /\ pending = NoException
    /\ behind = [c \in Callers |-> FALSE]
    /\ calls = 0
    /\ src = [tok |-> 0, exp |-> 0]
    /\ ev = NoEvent
    /\ session = "none"
    /\ close_session = TRUE
    /\ closing = 0
    /\ posted = NoRequest
    /\ rotated = [done |-> FALSE, val |-> None]
    /\ jwt \in [token : JwtTokens, validates : PyJwtBuilds, result : {NoValue}]

Extract ==
    /\ jwt.result = NoValue
    /\ jwt' = [jwt EXCEPT !.result =
                            ExtractUserIdFromToken(jwt.token, jwt.validates)]
    /\ UNCHANGED managerVars

JwtSpec == JwtInit /\ [][Extract]_vars

\* ==================================================================
\* Properties
\* ==================================================================
Contains(msg, piece) == \E i \in DOMAIN msg : msg[i] = piece

\* The step just taken ran some caller's critical section.
Entered(e) == e.op \in {"hit", "norefresh", "post", "postclosed"}

\* The step just taken ran the try body on the outcome of a POST.
Processed(e) == e.op \in {"respond", "suspend"}

\* The step just taken ended a call that had issued a POST.
Ended(e) == e.op \in {"respond", "exit"}

\* The step just taken ended a call with a token returned.
ReturnedToken(e) ==
    e.op \in {"hit", "respond", "exit"} /\ e.result.kind = "token"

\* Caller c has issued its POST and has not yet left the lock.
InRefresh(c) == pc[c] \in {"posting", "exiting"}

\* The cache holds a token whose expiry is more than 60 s ahead
\* (stated from the fields, not through _is_token_valid).
CachedAndFresh ==
    /\ access_token # None
    /\ token_expires_at # None
    /\ token_expires_at[1] - now > TOKEN_BUFFER

\* The cache holds no token, or one whose expiry is 60 s or less ahead.
AbsentOrExpiring ==
    \/ access_token = None
    \/ token_expires_at = None
    \/ token_expires_at[1] - now <= TOKEN_BUFFER

NoRefreshTokenStored == refresh_token = None \/ refresh_token = Some("")

\* The most recently issued POST has completed successfully: it wrote both
\* the token and the expiry now cached.
LastRefreshSucceeded == calls > 0 /\ src.tok = calls /\ src.exp = calls

\* ---- C1 ----------------------------------------------------------
\* C1 as stated: a caller that queued behind an in-flight refresh never
\* issues a network call of its own.
C1_QueuedNeverPosts == ev.op = "post" => ~ev.queued

\* C1 amended: a caller that queued behind an in-flight refresh returns the
\* cached token without a network call exactly when the most recent refresh
\* succeeded and the token it cached has more than 60 s to its expiry at
\* the time the queued caller gets the lock; the token returned is then the
\* one that refresh produced and no further call is issued.  Otherwise the
\* queued caller makes its own refresh attempt or raises.  A caller whose
\* task is cancelled while it waits in the queue raises CancelledError
\* without a network call and without a change to the cached state, and
\* it leaves the lock as it is: free only with the first remaining waiter,
\* if any, woken or cancelled.
C1_QueuedSharesFreshToken ==
    [][/\ (Entered(ev') /\ ev'.queued) =>
          /\ (ev'.op = "hit") <=>
                (LastRefreshSucceeded
                 /\ token_expires_at[1] - now > TOKEN_BUFFER)
          /\ (ev'.op = "hit") =>
                /\ ev'.result = Returned(access_token)
                /\ calls' = calls
                /\ tokenState' = tokenState
       /\ (ev'.op = "cancelled") =>
          /\ pc[ev'.c] = "waiting" /\ pc'[ev'.c] = "idle"
          /\ ev'.result = Raised(Cancelled)
          /\ calls' = calls
          /\ posted' = posted
          /\ tokenState' = tokenState
          /\ locked' = locked
          /\ (~locked' /\ waiters' # <<>>) =>
                fut'[Head(waiters')] \in {"result", "cancelled"}]_vars

C1_Witness ==
    /\ ev.op = "hit"
    /\ ev.queued
    /\ calls = 1
    /\ \E d \in Callers : pc[d] = "waiting" /\ fut[d] = "result"

\* ---- C2 ----------------------------------------------------------
\* C2: at most one refresh POST is outstanding in any reachable state.
C2_OneOutstandingRefresh ==
    Cardinality({c \in Callers : InRefresh(c)}) <= 1

\* A caller took the free lock at once past a cancelled waiter still in the
\* queue and is in its POST, while another caller waits behind it.
C2_Witness ==
    \E c, d, e \in Callers :
        /\ ev.op = "wait" /\ ev.c = e
        /\ pc[c] = "posting"
        /\ waiters = <<d, e>>
        /\ fut[d] = "cancelled" /\ fut[e] = "pending"
        /\ behind[e]

\* ---- C3 ----------------------------------------------------------
\* C3 as stated: a refresh that fails leaves access token, expiry and
\* refresh token as they were before the call.
C3_FailedRefreshKeepsState ==
    [][(Processed(ev') /\ ev'.result.kind # "token") =>
          tokenState' = tokenState]_vars

\* ---- C4 ----------------------------------------------------------
\* C4 as stated: every transport-level failure (timeout included) surfaces
\* as WattsVisionConnectionError, every application-level failure (non-200
\* status, missing access_token) as WattsVisionAuthError.
C4_ErrorKinds ==
    Processed(ev) =>
        /\ ev.outcome.kind \in {"ClientError", "TimeoutError"} =>
              ev.result.kind = "WattsVisionConnectionError"
        /\ (ev.outcome.kind = "response"
            /\ (\/ ev.outcome.status # HTTP_OK
                \/ ~ev.outcome.json.access_token.has)) =>
              ev.result.kind = "WattsVisionAuthError"

\* ---- C5 ----------------------------------------------------------
\* C5 as stated: a non-null cached access token comes with a non-null
\* expiry, computed by the refresh that produced the token.
C5_TokenHasItsExpiry ==
    access_token # None =>
        token_expires_at # None /\ src.exp = src.tok

\* ---- C6 ----------------------------------------------------------
\* C6: a call that finds a cached token with expiry more than 60 s ahead
\* returns that token, issues no POST and changes no field, whether or not
\* a refresh token is stored.
C6_FreshTokenServedFromCache ==
    [][(Entered(ev') /\ CachedAndFresh) =>
          /\ ev'.op = "hit"
          /\ ev'.result = Returned(access_token)
          /\ calls' = calls
          /\ tokenState' = tokenState]_vars

C6_Witness ==
    /\ ev.op = "hit"
    /\ NoRefreshTokenStored
    /\ token_expires_at[1] - now = TOKEN_BUFFER + 1

\* ---- C7 ----------------------------------------------------------
\* C7: a call that finds the token absent or 60 s or less from expiry,
\* with a refresh token stored, issues exactly one POST: one when it
\* enters, none after it.
C7_OneRefreshPerCall ==
    [][/\ (Entered(ev') /\ AbsentOrExpiring /\ ~NoRefreshTokenStored) =>
            (ev'.op \in {"post", "postclosed"} /\ calls' = calls + 1)
       /\ \A c \in Callers :
            InRefresh(c) =>
                (calls' = calls /\ pc'[c] \in {"posting", "exiting", "idle"})]_vars

C7_Witness ==
    /\ ev.op = "post"
    /\ access_token # None
    /\ token_expires_at # None
    /\ token_expires_at[1] - now = TOKEN_BUFFER

\* ---- C8 ----------------------------------------------------------
\* C8: a call that finds no refresh token and no valid cached token raises
\* WattsVisionAuthError, issues no POST and changes no field.
C8_NoRefreshTokenRaises ==
    [][(Entered(ev') /\ NoRefreshTokenStored /\ AbsentOrExpiring) =>
          /\ ev'.op = "norefresh"
          /\ ev'.result.kind = "WattsVisionAuthError"
          /\ calls' = calls
          /\ tokenState' = tokenState]_vars

C8_Witness ==
    /\ ev.op = "norefresh"
    /\ access_token # None
    /\ token_expires_at # None
    /\ refresh_token = Some("")

\* ---- C9 ----------------------------------------------------------
\* C9: a response with a status other than 200 changes no field and makes
\* the call raise WattsVisionAuthError with a message that holds the
\* status code and the response text, at once or, when the call is
\* suspended releasing the connection, when it resumes (a caller cancelled
\* there gets the CancelledError).
C9_StatusErrorCarriesStatusAndBody ==
    [][/\ (Processed(ev') /\ ev'.outcome.kind = "response"
           /\ ev'.outcome.status # HTTP_OK) =>
             /\ ev'.result.kind = "WattsVisionAuthError"
             /\ Contains(ev'.result.msg, Str(ev'.outcome.status))
             /\ Contains(ev'.result.msg, ev'.outcome.body)
             /\ ev'.op = "suspend" =>
                   /\ Contains(pending'.msg, Str(ev'.outcome.status))
                   /\ Contains(pending'.msg, ev'.outcome.body)
             /\ tokenState' = tokenState
       /\ (ev'.op = "exit" /\ pending.type # "none") =>
             /\ tokenState' = tokenState
             /\ ev'.result.kind # "CancelledError" =>
                   /\ ev'.result.kind = "WattsVisionAuthError"
                   /\ \A i \in DOMAIN pending.msg :
                         Contains(ev'.result.msg, pending.msg[i])]_vars

C9_Witness ==
    /\ ev.op = "exit"
    /\ ev.result.kind = "WattsVisionAuthError"
    /\ Contains(ev.result.msg, "401")
    /\ Contains(ev.result.msg, "{\"error\":\"invalid_grant\"}")
    /\ access_token # None

\* ---- C10 ---------------------------------------------------------
\* C10: a successful refresh keeps the stored refresh token when the
\* response has no refresh_token and takes the response's value when it
\* has one.
C10_RefreshTokenRotation ==
    [][(Processed(ev') /\ ev'.result.kind = "token") =>
          /\ ~ev'.outcome.json.refresh_token.has =>
                refresh_token' = refresh_token
          /\ ev'.outcome.json.refresh_token.has =>
                refresh_token' = ev'.outcome.json.refresh_token.val]_vars

C10_Witness ==
    /\ ev.op = "respond"
    /\ ev.result.kind = "token"
    /\ ~ev.outcome.json.refresh_token.has
    /\ refresh_token = Some("rt1")

\* ---- C11 ---------------------------------------------------------
\* C11 as stated: a session injected by the caller is never closed (nor
\* dropped) by the manager; a session the manager owns is closed by every
\* __aexit__, after a normal exit or an exception, and by every close();
\* and the manager lets go of an open session it owns only by closing it.
C11_SessionOwnership ==
    [][/\ ~close_session => (session = "open" /\ session' = "open")
       /\ (ev'.op \in {"aexit", "close"} /\ close_session
           /\ session # "none") => session' \in {"closed", "none"}
       /\ (close_session /\ session = "open" /\ session' # "open") =>
             ev'.op \in {"aexit", "close"}]_vars

\* ---- C12 ---------------------------------------------------------
\* C12: the manager never retries: from a caller's POST to the end of its
\* call no further POST is issued, and the call ends with the token or
\* with the error of the failed exchange, raised to that caller.
C12_NoRetry ==
    [][\A c \in Callers :
          InRefresh(c) =>
             /\ calls' = calls
             /\ ~InRefresh(c)' =>
                   /\ pc'[c] = "idle"
                   /\ Ended(ev') /\ ev'.c = c
                   /\ ev'.result.kind \in
                         {"token", "WattsVisionAuthError",
                          "WattsVisionConnectionError", "CancelledError"}
                   /\ ev'.result.kind = "token" <=>
                         (access_token' = ev'.result.token
                          /\ src'.exp = calls)]_vars

C12_Witness ==
    /\ ev.op = "respond"
    /\ ev.result.kind = "WattsVisionConnectionError"
    /\ calls = 1
    /\ \A c \in Callers : pc[c] = "idle"

\* ---- C13 ---------------------------------------------------------
\* C13 as stated: every token get_access_token returns is non-null and has
\* its expiry more than 60 s after the time of the return.
C13_ReturnedTokenValid ==
    ReturnedToken(ev) =>
        /\ ev.result.token # None
        /\ token_expires_at # None
        /\ token_expires_at[1] - now > TOKEN_BUFFER

\* C13 amended: every token returned is the non-null cached token; its
\* expiry is more than 60 s after the return when it comes from the cache;
\* when it comes from the refresh the call made it is returned without a
\* second look at its expiry, which, for a call that returns in the step
\* that processed the response, is more than 60 s after the return
\* exactly when the response's expires_in (3600 if omitted) is more than
\* 60.
C13_ReturnedTokenValidUnlessShortLived ==
    ReturnedToken(ev) =>
        /\ ev.result.token # None /\ ev.result.token # Some("")
        /\ ev.result.token = access_token
        /\ token_expires_at # None
        /\ ev.op = "hit" => token_expires_at[1] - now > TOKEN_BUFFER
        /\ Ended(ev) => (src.tok = calls /\ src.exp = calls)
        /\ ev.op = "respond" =>
              ((token_expires_at[1] - now > TOKEN_BUFFER) <=>
                  (IF ev.outcome.json.expires_in.has
                   THEN ev.outcome.json.expires_in.val > TOKEN_BUFFER
                   ELSE TRUE))

C13_Witness ==
    /\ ev.op = "exit"
    /\ ev.result.kind = "token"
    /\ token_expires_at[1] - now = TOKEN_BUFFER

\* ---- C14 ---------------------------------------------------------
\* C14: after a successful refresh at time now the expiry is now +
\* expires_in when the response has expires_in, and now + 3600 when it has
\* none.
C14_ExpiryComputation ==
    [][(Processed(ev') /\ ev'.result.kind = "token") =>
          /\ ev'.outcome.json.expires_in.has =>
                token_expires_at' = <<now + ev'.outcome.json.expires_in.val>>
          /\ ~ev'.outcome.json.expires_in.has =>
                token_expires_at' = <<now + 3600>>]_vars

C14_Witness ==
    /\ ev.op = "respond"
    /\ ev.result.kind = "token"
    /\ ~ev.outcome.json.expires_in.has
    /\ token_expires_at = <<now + 3600>>
    /\ now > StartTime

\* ---- C15 ---------------------------------------------------------
\* A token jwt.decode can take apart: a string of three segments, the
\* header a JSON object whose members the installed PyJWT accepts (among
\* them a crit it accepts), the payload a JSON object, the signature
\* segment base64.
Decodable(tok, validates) ==
    /\ tok.type = "str"
    /\ tok.utf8
    /\ tok.segments = 3
    /\ tok.header = "object" \/ (tok.header = "kidcrit" /\ ~validates)
    /\ tok.payload = "object"
    /\ tok.signature = "base64"

\* C15 as stated: extract_user_id_from_token never raises; it returns the
\* payload's sub for a decodable token and null for a malformed token or a
\* payload without sub.
C15_ExtractNeverRaises ==
    jwt.result # NoValue =>
        /\ jwt.result.kind = "returned"
        /\ (Decodable(jwt.token, jwt.validates) /\ jwt.token.sub.has) =>
              jwt.result.value = jwt.token.sub.val
        /\ (~Decodable(jwt.token, jwt.validates) \/ ~jwt.token.sub.has) =>
              jwt.result.value = None

\* ---- C16 ---------------------------------------------------------
\* The wait for the release of the connection at the exit of
\* `async with self.session.post(...)` ends whenever it begins.
ExitEnds == \A c \in Callers : []<>(pc[c] # "exiting")

\* C16 as stated, the completion of a network call read to include the
\* release of its connection: the lock is held only from a caller's POST
\* to the end of its call, and, every exchange and every exit of the
\* POST's `async with` ending, every caller waiting on the lock eventually
\* acquires it, and the lock, once held, is eventually released.
C16_WaiterAcquires ==
    /\ [](locked <=> \E c \in Callers : InRefresh(c))
    /\ ExitEnds =>
          /\ locked ~> ~locked
          /\ \A c \in Callers :
                (pc[c] = "waiting") ~> (Entered(ev) /\ ev.c = c)

\* C16 amended: the lock is held only from a caller's POST to the end of
\* its call, whatever the way the holder left (return, AuthError,
\* ConnectionError, cancellation); a free lock with waiters has its first
\* waiter woken or cancelled; and, provided every exchange ends with a
\* response or an error and every wait at the exit of the POST's
\* `async with` ends, every caller waiting on the lock eventually acquires
\* it or, its task cancelled, leaves the queue with CancelledError, and
\* the lock, once held, is eventually released: the holder ends its call.
C16_LockReleasedAndProgress ==
    /\ [](locked <=> \E c \in Callers : InRefresh(c))
    /\ []((~locked /\ waiters # <<>>) => fut[Head(waiters)] # "pending")
    /\ ExitEnds =>
          /\ locked ~> ~locked
          /\ \A c \in Callers :
                (pc[c] = "waiting") ~>
                   (ev.c = c /\ (Entered(ev) \/ ev.op = "cancelled"))

C16_Witness ==
    /\ ev.op = "post"
    /\ ev.queued
    /\ calls = 2
    /\ src.exp = 0

\* ---- C17 ---------------------------------------------------------
\* C17: every refresh request carries grant type refresh_token, the client
\* id, the client secret and the refresh token stored when it is built,
\* which, once a response has rotated the refresh token, is the value of
\* the latest rotation.
C17_RequestCarriesCurrentRefreshToken ==
    ev.op = "post" =>
        /\ posted.data.grant_type = "refresh_token"
        /\ posted.data.client_id = ClientId
        /\ posted.data.client_secret = ClientSecret
        /\ posted.data.refresh_token = refresh_token
        /\ rotated.done => posted.data.refresh_token = rotated.val

C17_Witness ==
    /\ ev.op = "post"
    /\ rotated.done
    /\ posted.data.refresh_token = Some("rt1")

\* ---- C18 ---------------------------------------------------------
\* C18: every token returned was written to the cache by a refresh that
\* ran to its successful end (the one that also wrote the cached expiry);
\* what a failed refresh wrote is never returned.
C18_ReturnedTokenFromSuccessfulRefresh ==
    ReturnedToken(ev) =>
        /\ src.tok > 0
        /\ src.tok = src.exp
        /\ ev.result.token = access_token

C18_Witness ==
    /\ ev.op = "post"
    /\ access_token # None
    /\ src.tok # src.exp

\* ---- C19 ---------------------------------------------------------
\* C19 as stated: a refresh POST is never made on a session the manager
\* has closed.
C19_PostOnOpenSession ==
    ev.op \in {"post", "postclosed"} => session = "open"

\* ---- C20 ---------------------------------------------------------
\* C20 as stated: a non-empty stored refresh token stays non-empty.
C20_RefreshTokenStaysNonEmpty ==
    [][TruthyStr(refresh_token) => TruthyStr(refresh_token')]_vars

\* C20 amended: a non-empty stored refresh token stops being non-empty
\* only in a successful refresh whose response carries a null or empty
\* refresh_token; get_access_token raises for want of a refresh token only
\* when none was given to the constructor or after such a response.
C20_RefreshTokenLostOnlyByEmptyRotation ==
    /\ [][(TruthyStr(refresh_token) /\ ~TruthyStr(refresh_token')) =>
             /\ Processed(ev')
             /\ ev'.result.kind = "token"
             /\ ev'.outcome.json.refresh_token.has
             /\ ev'.outcome.json.refresh_token.val \in {None, Some("")}]_vars
    /\ [](ev.op = "norefresh" =>
             \/ calls = 0
             \/ rotated.done /\ rotated.val \in {None, Some("")})

C20_Witness ==
    /\ ev.op = "norefresh"
    /\ rotated.done
    /\ rotated.val = None

====
